---- MODULE Spec2Model ----
(***************************************************************************)
(* Model of @stagetimerio/license: the PEM key normalizer _parseRSAKey,    *)
(* signToken, parseToken, isValidToken and isTokenExpDateMatching.         *)
(*                                                                         *)
(* Strings are sequences of one-character strings, so that startsWith,     *)
(* replace and trim are computed character by character as the code does.  *)
(* Times are integers in milliseconds since the epoch, JWT timestamps are  *)
(* integers in seconds.                                                    *)
(***************************************************************************)
EXTENDS Integers, Sequences, FiniteSets, TLC

VARIABLES
    now,        \* the wall clock, Date.now(), in ms
    signed,     \* the last signToken call: its arguments and its outcome
    wire,       \* the token string handed to the verifier
    out,        \* the parseToken / isValidToken call made at this instant
    parsed,     \* the last object parseToken returned, kept by its caller
    norm,       \* the last _parseRSAKey call made on its own
    match       \* the last isTokenExpDateMatching call

vars == <<now, signed, wire, out, parsed, norm, match>>

Null == <<>>                     \* null where a Date is expected
DateOf(ms) == <<ms>>             \* new Date(ms)
UndefinedKey == <<"undefined">>  \* a key argument that is not a string

-----------------------------------------------------------------------------
(* Bounds of the model *)

MaxTick == 4        \* the clock takes the values 0, TickMs, .. MaxTick*TickMs
TickMs == 500       \* the clock's step, in ms
MaxLines == 2       \* most base64 body lines in a key
MaxRun == 3         \* longest run of separators between two lines of a key
MaxExpSec == 9      \* largest exp, in seconds, handed to the comparator

-----------------------------------------------------------------------------
(* Characters and strings *)

NL == "\n"
BS == "\\"
SP == " "
TAB == "\t"

\* the characters the regular expression class \s matches
Whitespace == {SP, NL, TAB, "\r"}

Dashes == <<"-", "-", "-", "-", "-">>
BeginWord == <<"B", "E", "G", "I", "N", SP>>
EndWord == <<"E", "N", "D", SP>>
PublicKeyType == <<"P", "U", "B", "L", "I", "C", SP, "K", "E", "Y">>
RsaPrivateKeyType ==
    <<"R", "S", "A", SP, "P", "R", "I", "V", "A", "T", "E", SP, "K", "E", "Y">>
\* what the template literal `${keyType}` yields while keyType is null
NullType == <<"n", "u", "l", "l">>
\* a marker the normalizer does not recognise (a PKCS#8 private key)
Pkcs8KeyType == <<"P", "R", "I", "V", "A", "T", "E", SP, "K", "E", "Y">>

\* `-----BEGIN ${keyType}-----` and `-----END ${keyType}-----`
BeginMarker(keyType) == Dashes \o BeginWord \o keyType \o Dashes
EndMarker(keyType) == Dashes \o EndWord \o keyType \o Dashes

\* String.prototype.startsWith
StartsWith(s, p) == Len(s) >= Len(p) /\ SubSeq(s, 1, Len(p)) = p

\* String.prototype.indexOf, 1-based; 0 when p does not occur in s
IndexOf(s, p) ==
    LET hits == {i \in 1..(Len(s) - Len(p) + 1) : SubSeq(s, i, i + Len(p) - 1) = p}
    IN IF hits = {} THEN 0 ELSE CHOOSE i \in hits : \A j \in hits : i <= j

\* String.prototype.replace(p, '') with a string pattern: the first
\* occurrence only
RemoveFirst(s, p) ==
    LET i == IndexOf(s, p)
    IN IF i = 0 THEN s
       ELSE SubSeq(s, 1, i - 1) \o SubSeq(s, i + Len(p), Len(s))

\* a global regular-expression replace: the characters of s with those
\* at the positions in dropped removed
Dropped == ""
Without(s, dropped) ==
    SelectSeq([i \in 1..Len(s) |-> IF i \in dropped THEN Dropped ELSE s[i]],
              LAMBDA c : c # Dropped)

\* the same replacement without the alternative for backslash-n: /\s/g
ReplaceSpaceOnly(s) ==
    [i \in 1..Len(s) |-> IF s[i] \in Whitespace THEN NL ELSE s[i]]

\* .replace(/\\n|\s/g, '\n'): scanning left to right, a backslash followed
\* by n (two characters) or one whitespace character becomes one newline.
\* A backslash is never consumed by an earlier match (it is neither
\* whitespace nor n), so every backslash that n follows starts a match.
ReplaceEscapedOrSpace(s) ==
    LET escapeAt == {i \in 1..(Len(s) - 1) : s[i] = BS /\ s[i + 1] = "n"}
        replaced == [i \in 1..Len(s) |->
                        IF i \in escapeAt \/ s[i] \in Whitespace THEN NL ELSE s[i]]
    IN Without(replaced, {i + 1 : i \in escapeAt})

\* the first position of the run of newlines that position i of s is in
RunStart(s, i) ==
    LET before == {j \in 1..(i - 1) : s[j] # NL}
    IN IF before = {} THEN 1
       ELSE 1 + CHOOSE j \in before : \A k \in before : k <= j

\* .replace(/\n\n/g, '\n'): one pass, left to right, matches do not overlap:
\* in every run of newlines the matches are the pairs counted from the
\* start of the run, and the second newline of each pair goes
ReplaceDoubleNewline(s) ==
    Without(s, {i \in 1..Len(s) : s[i] = NL /\ (i - RunStart(s, i)) % 2 = 1})

\* String.prototype.trim
TrimStart(s) ==
    LET kept == {i \in 1..Len(s) : s[i] \notin Whitespace}
    IN IF kept = {} THEN <<>>
       ELSE SubSeq(s, CHOOSE i \in kept : \A j \in kept : i <= j, Len(s))

TrimEnd(s) ==
    LET kept == {i \in 1..Len(s) : s[i] \notin Whitespace}
    IN IF kept = {} THEN <<>>
       ELSE SubSeq(s, 1, CHOOSE i \in kept : \A j \in kept : j <= i)

\* trimStart in place of trim: whitespace at the end is kept
TrimStartOnly(s) == TrimStart(s)

Trim(s) == TrimEnd(TrimStart(s))

-----------------------------------------------------------------------------
(* The key normalizer *)

\* let keyType = null, then the two ifs that set it, in the code's order
KeyTypeOf(key) ==
    LET afterFirstIf == IF StartsWith(key, BeginMarker(PublicKeyType))
                        THEN PublicKeyType ELSE NullType
    IN IF StartsWith(key, BeginMarker(RsaPrivateKeyType))
       THEN RsaPrivateKeyType ELSE afterFirstIf

\* the chain of replacements that computes coreStr
CoreStr(key, keyType) ==
    Trim(ReplaceDoubleNewline(ReplaceEscapedOrSpace(
        RemoveFirst(RemoveFirst(key, BeginMarker(keyType)), EndMarker(keyType)))))

\* _parseRSAKey(key): [threw |-> TRUE] when the call raises (key is not a
\* string, so key.startsWith is a TypeError), else the formatted key
_parseRSAKey(key) ==
    IF key = UndefinedKey THEN [threw |-> TRUE, value |-> <<>>]
    ELSE LET keyType == KeyTypeOf(key)
         IN [threw |-> FALSE,
             value |-> BeginMarker(keyType) \o <<NL>> \o CoreStr(key, keyType)
                       \o <<NL>> \o EndMarker(keyType)]

-----------------------------------------------------------------------------
(* Keys *)

LineM == <<"M", "I", "I", "B">>
LineA == <<"a", "5", "n", "Q">>
BodyLines == {LineM, LineA}

\* the ways a line break of a key is written: a space, a real newline, the
\* two characters backslash and n
SpaceJoined == <<SP>>
RealNewline == <<NL>>
EscapedNewline == <<BS, "n">>
Units == {SpaceJoined, RealNewline, EscapedNewline}

RECURSIVE Repeat(_, _)
Repeat(unit, n) == IF n = 0 THEN <<>> ELSE unit \o Repeat(unit, n - 1)

RECURSIVE JoinLines(_, _)
JoinLines(lines, sep) ==
    IF lines = <<>> THEN <<>>
    ELSE sep \o Head(lines) \o JoinLines(Tail(lines), sep)

\* the text of the key k = [type, lines] with every line break written as sep
Encode(k, sep) ==
    BeginMarker(k.type) \o JoinLines(k.lines, sep) \o sep \o EndMarker(k.type)

\* the PEM text of k: the BEGIN line, one body line per line, the END line
Canonical(k) == Encode(k, <<NL>>)

LineSeqs == UNION {[1..n -> BodyLines] : n \in 1..MaxLines}
LogicalKeys == [type : {PublicKeyType, RsaPrivateKeyType}, lines : LineSeqs]

\* the key pair used by the licence issuer, and the public key of another pair
PrivA == [type |-> RsaPrivateKeyType, lines |-> <<LineM, LineA>>]
PubA == [type |-> PublicKeyType, lines |-> <<LineA, LineM>>]
PubB == [type |-> PublicKeyType, lines |-> <<LineM>>]
\* a shared secret for HS256
Secret == <<"s", "3", "c", "r", "e", "t">>

\* key arguments as callers pass them (PEM keys kept in one line of an
\* environment variable, as in the tests)
SignKeys == {Encode(PrivA, SpaceJoined), Secret}
VerifyKeys == {Encode(PubA, SpaceJoined), Encode(PubB, SpaceJoined), Secret,
               UndefinedKey}
Algorithms == {"RS256", "HS256"}

\* _parseRSAKey on each key argument, computed once
NormalizedKey == [key \in SignKeys \union VerifyKeys |-> _parseRSAKey(key)]

-----------------------------------------------------------------------------
(* The cryptographic primitive (jsonwebtoken), as the code uses it *)

MsPerSec == 1000

PemPrivA == Canonical(PrivA)
PemPubA == Canonical(PubA)
PemPubB == Canonical(PubB)

\* the key pair a PEM text belongs to, named by its public PEM text;
\* <<>> when the text is not the PEM text of a private key
PrivateKeyOwner(pem) == IF pem = PemPrivA THEN PemPubA ELSE <<>>
\* the same for a public key
PublicKeyOwner(pem) == IF pem \in {PemPubA, PemPubB} THEN pem ELSE <<>>

\* the signature of header and claims under the key named kid; extra holds
\* characters appended to the signature segment of the token string
Signature(alg, kid, claims) ==
    [alg |-> alg, kid |-> kid, claims |-> claims, extra |-> <<>>]

\* the number of seconds a duration string stands for (the ms package)
SecondsOfText(text) == IF text = "1s" THEN 1 ELSE 0

\* timespan(options.expiresIn, iat)
Timespan(expiresIn, iat) ==
    IF expiresIn.kind = "number" THEN iat + expiresIn.seconds
    ELSE iat + SecondsOfText(expiresIn.text)

\* jwt.sign(payload, key, options) at the clock value clock; primitiveKey
\* records the key argument the primitive was called with
JwtSign(payload, key, options, clock) ==
    LET iat == clock \div MsPerSec
        withIat == [c \in DOMAIN payload \union {"iat"} |->
                       IF c = "iat" THEN iat ELSE payload[c]]
        claims == IF "expiresIn" \in DOMAIN options
                  THEN [c \in DOMAIN withIat \union {"exp"} |->
                           IF c = "exp" THEN Timespan(options.expiresIn, iat)
                           ELSE withIat[c]]
                  ELSE withIat
        kid == IF options.algorithm = "RS256" THEN PrivateKeyOwner(key) ELSE key
    IN IF kid = <<>> \/ kid = UndefinedKey
       THEN [threw |-> TRUE, primitiveKey |-> key]
       ELSE [threw |-> FALSE, primitiveKey |-> key,
             token |-> [kind |-> "jwt", alg |-> options.algorithm,
                        claims |-> claims,
                        sig |-> Signature(options.algorithm, kid, claims)]]

\* jwt.verify(token, key, { algorithms: [algorithm], ignoreExpiration }) at
\* the clock value clock
JwtVerify(token, key, algorithm, ignoreExpiration, clock) ==
    LET kid == IF algorithm = "RS256" THEN PublicKeyOwner(key) ELSE key
        clockTimestamp == clock \div MsPerSec
    IN IF token.kind # "jwt"
       THEN [threw |-> TRUE, primitiveKey |-> key, why |-> "jwt malformed"]
       ELSE IF token.alg # algorithm
            THEN [threw |-> TRUE, primitiveKey |-> key, why |-> "invalid algorithm"]
       ELSE IF kid = <<>> \/ kid = UndefinedKey
            THEN [threw |-> TRUE, primitiveKey |-> key, why |-> "invalid key"]
       ELSE IF token.sig # Signature(token.alg, kid, token.claims)
            THEN [threw |-> TRUE, primitiveKey |-> key, why |-> "invalid signature"]
       ELSE IF /\ ~ignoreExpiration
               /\ "exp" \in DOMAIN token.claims
               /\ clockTimestamp >= token.claims.exp
            THEN [threw |-> TRUE, primitiveKey |-> key, why |-> "jwt expired"]
       ELSE [threw |-> FALSE, primitiveKey |-> key, claims |-> token.claims]

-----------------------------------------------------------------------------
(* signToken, parseToken, isValidToken *)

\* the expiresIn argument: null or omitted, a Date, a duration string
NoExpiry == [kind |-> "null"]
DateExpiry(ms) == [kind |-> "date", ms |-> ms]
TextExpiry(text) == [kind |-> "string", text |-> text]

\* the options object with the earlier default expiresIn = '1s' in place of
\* null: a token signed without an expiry still gets one
SignOptionsDefaultText(expiresIn, algorithm, clock) ==
    IF expiresIn.kind = "date"
    THEN [algorithm |-> algorithm,
          expiresIn |-> [kind |-> "number",
                         seconds |-> (expiresIn.ms - clock) \div MsPerSec]]
    ELSE [algorithm |-> algorithm,
          expiresIn |-> [kind |-> "string",
                         text |-> IF expiresIn.kind = "string"
                                  THEN expiresIn.text ELSE "1s"]]

\* the options object signToken builds
SignOptions(expiresIn, algorithm, clock) ==
    IF expiresIn.kind = "date"
    THEN [algorithm |-> algorithm,
          expiresIn |-> [kind |-> "number",
                         seconds |-> (expiresIn.ms - clock) \div MsPerSec]]
    ELSE IF expiresIn.kind = "string"
    THEN [algorithm |-> algorithm,
          expiresIn |-> [kind |-> "string", text |-> expiresIn.text]]
    ELSE [algorithm |-> algorithm]

\* the earlier versions' _parseKey(key) whatever the algorithm
SanitizedKeyAlways(key, algorithm) == NormalizedKey[key]

\* const sanitizedKey = algorithm === 'RS256' ? _parseRSAKey(key) : key
SanitizedKey(key, algorithm) ==
    IF algorithm = "RS256" THEN NormalizedKey[key]
    ELSE [threw |-> FALSE, value |-> key]

\* signToken(payload, key, expiresIn, algorithm) at the clock value clock
signToken(payload, key, expiresIn, algorithm, clock) ==
    LET sanitizedKey == SanitizedKey(key, algorithm)
    IN IF sanitizedKey.threw THEN [threw |-> TRUE]
       ELSE JwtSign(payload, sanitizedKey.value,
                    SignOptions(expiresIn, algorithm, clock), clock)

\* a JavaScript number used as a condition
Truthy(n) == n # 0

\* new Date() < parsed.exp: the comparison made strict
NotAfterStrict(clock, exp) == clock < exp[1]

\* new Date() <= parsed.exp
NotAfter(clock, exp) == clock <= exp[1]

\* parseToken with jwt.decode in place of jwt.verify: the claims are read
\* without checking the signature
parseTokenDecodeOnly(tokenString, key, algorithm, clock) ==
    LET claims == tokenString.claims
        exp == IF "exp" \in DOMAIN claims /\ Truthy(claims.exp)
               THEN DateOf(claims.exp * MsPerSec) ELSE Null
        iat == IF "iat" \in DOMAIN claims /\ Truthy(claims.iat)
               THEN DateOf(claims.iat * MsPerSec) ELSE Null
        isValid == exp = Null \/ NotAfter(clock, exp)
    IN IF tokenString.kind # "jwt" THEN [threw |-> TRUE]
       ELSE [threw |-> FALSE,
             value |-> [c \in DOMAIN claims \union {"exp", "iat", "isValid"} |->
                           CASE c = "exp" -> exp
                             [] c = "iat" -> iat
                             [] c = "isValid" -> isValid
                             [] OTHER -> claims[c]]]

\* parseToken with the algorithm taken from the token's header instead of
\* the algorithm argument
parseTokenHeaderAlgorithm(tokenString, key, algorithm, clock) ==
    LET declared == IF tokenString.kind = "jwt" THEN tokenString.alg ELSE algorithm
        sanitizedKey == SanitizedKey(key, declared)
        verified == JwtVerify(tokenString, sanitizedKey.value, declared, TRUE, clock)
        claims == verified.claims
        exp == IF "exp" \in DOMAIN claims /\ Truthy(claims.exp)
               THEN DateOf(claims.exp * MsPerSec) ELSE Null
        iat == IF "iat" \in DOMAIN claims /\ Truthy(claims.iat)
               THEN DateOf(claims.iat * MsPerSec) ELSE Null
        isValid == exp = Null \/ NotAfter(clock, exp)
    IN IF sanitizedKey.threw THEN [threw |-> TRUE]
       ELSE IF verified.threw
       THEN [threw |-> TRUE, primitiveKey |-> verified.primitiveKey]
       ELSE [threw |-> FALSE, primitiveKey |-> verified.primitiveKey,
             value |-> [c \in DOMAIN claims \union {"exp", "iat", "isValid"} |->
                           CASE c = "exp" -> exp
                             [] c = "iat" -> iat
                             [] c = "isValid" -> isValid
                             [] OTHER -> claims[c]]]

\* parseToken(tokenString, key, algorithm) at the clock value clock;
\* primitiveKey is the key jwt.verify was called with, absent when the
\* call was not reached
parseToken(tokenString, key, algorithm, clock) ==
    LET sanitizedKey == SanitizedKey(key, algorithm)
        verified == JwtVerify(tokenString, sanitizedKey.value, algorithm, TRUE, clock)
        claims == verified.claims
        exp == IF "exp" \in DOMAIN claims /\ Truthy(claims.exp)
               THEN DateOf(claims.exp * MsPerSec) ELSE Null
        iat == IF "iat" \in DOMAIN claims /\ Truthy(claims.iat)
               THEN DateOf(claims.iat * MsPerSec) ELSE Null
        isValid == exp = Null \/ NotAfter(clock, exp)
    IN IF sanitizedKey.threw THEN [threw |-> TRUE]
       ELSE IF verified.threw
       THEN [threw |-> TRUE, primitiveKey |-> verified.primitiveKey]
       ELSE [threw |-> FALSE, primitiveKey |-> verified.primitiveKey,
             value |-> [c \in DOMAIN claims \union {"exp", "iat", "isValid"} |->
                           CASE c = "exp" -> exp
                             [] c = "iat" -> iat
                             [] c = "isValid" -> isValid
                             [] OTHER -> claims[c]]]

\* isValidToken without the try/catch: what the body raises reaches the caller
isValidTokenUncaught(tokenString, key, algorithm, clock) ==
    LET sanitizedKey == SanitizedKey(key, algorithm)
        verified == JwtVerify(tokenString, sanitizedKey.value, algorithm,
                              FALSE, clock)
    IN IF sanitizedKey.threw THEN [threw |-> TRUE, value |-> FALSE]
       ELSE [threw |-> verified.threw, value |-> ~verified.threw,
             primitiveKey |-> verified.primitiveKey]

\* isValidToken(tokenString, key, algorithm) at the clock value clock;
\* primitiveKey is the key jwt.verify was called with, absent when the
\* call was not reached
isValidToken(tokenString, key, algorithm, clock) ==
    LET sanitizedKey == SanitizedKey(key, algorithm)
        verified == JwtVerify(tokenString, sanitizedKey.value, algorithm,
                              FALSE, clock)
    IN IF sanitizedKey.threw THEN [threw |-> FALSE, value |-> FALSE]
       ELSE [threw |-> FALSE, value |-> ~verified.threw,
             primitiveKey |-> verified.primitiveKey]

-----------------------------------------------------------------------------
(* isTokenExpDateMatching *)

Tolerance == 2000

Abs(n) == IF n < 0 THEN -n ELSE n

\* the comparator with the boundary excluded: < tolerance
isTokenExpDateMatchingStrict(parsedToken, date) ==
    IF parsedToken.exp = Null THEN FALSE
    ELSE Abs(parsedToken.exp[1] - date) < Tolerance

\* isTokenExpDateMatching(parsedToken, date); exp is a Date or null, date
\* a time in ms
isTokenExpDateMatching(parsedToken, date) ==
    IF parsedToken.exp = Null THEN FALSE
    ELSE Abs(parsedToken.exp[1] - date) <= Tolerance

-----------------------------------------------------------------------------
(* Inputs *)

Payloads == {[foo |-> "bar"], [planId |-> 0, email |-> "a@b"]}

Instants == {k * TickMs : k \in 0..MaxTick}

Expiries == {NoExpiry, TextExpiry("1s")} \union {DateExpiry(t) : t \in Instants}

\* what an attacker or a transmission error makes of the token string t:
\* characters appended, a character of the payload segment altered, the
\* header altered, the structure destroyed
Tampered(t) ==
    {[t EXCEPT !.sig.extra = <<"X", "X", "X">>],
     IF "exp" \in DOMAIN t.claims THEN [t EXCEPT !.claims.exp = @ + MaxTick]
                                  ELSE [t EXCEPT !.claims.iat = @ + 1],
     [t EXCEPT !.alg = IF @ = "RS256" THEN "HS256" ELSE "RS256"],
     [kind |-> "malformed"]}

\* the distances between exp and date tried on the comparator
Deltas == {-Tolerance - 1, -Tolerance, -Tolerance + 1, -1, 0, 1,
           Tolerance - 1, Tolerance, Tolerance + 1}

-----------------------------------------------------------------------------
(* The state machine *)

Init ==
    /\ now = 0
    /\ signed = [op |-> "none"]
    /\ wire = [kind |-> "none"]
    /\ out = [op |-> "none"]
    /\ parsed = [op |-> "none"]
    /\ norm = [op |-> "none"]
    /\ match = [op |-> "none"]

\* time passes
Tick ==
    /\ now < MaxTick * TickMs
    /\ now' = now + TickMs
    /\ out' = [op |-> "none"]
    /\ UNCHANGED <<signed, wire, parsed, norm, match>>

\* a caller signs a payload; the token goes on the wire (the operations
\* keep no state between calls, so one token is followed at a time)
Sign ==
    /\ signed.op = "none"
    /\ \E payload \in Payloads, key \in SignKeys, expiresIn \in Expiries,
          algorithm \in Algorithms :
        LET result == signToken(payload, key, expiresIn, algorithm, now)
        IN /\ signed' = [op |-> "signToken", payload |-> payload, key |-> key,
                         expiresIn |-> expiresIn, algorithm |-> algorithm,
                         at |-> now, result |-> result]
           /\ wire' = IF result.threw THEN [kind |-> "none"] ELSE result.token
           /\ UNCHANGED <<now, out, parsed, norm, match>>

\* the token string is altered before it reaches the verifier
Tamper ==
    /\ wire.kind = "jwt"
    /\ wire = signed.result.token
    /\ wire' \in Tampered(wire)
    /\ out' = [op |-> "none"]
    /\ parsed' = [op |-> "none"]
    /\ UNCHANGED <<now, signed, norm, match>>

\* a caller parses the token on the wire
Parse ==
    /\ wire.kind # "none"
    /\ \E key \in VerifyKeys, algorithm \in Algorithms :
        LET result == parseToken(wire, key, algorithm, now)
        IN /\ out' = [op |-> "parseToken", key |-> key,
                      algorithm |-> algorithm, result |-> result]
           /\ parsed' = IF result.threw THEN parsed
                        ELSE [op |-> "parseToken", key |-> key,
                              algorithm |-> algorithm, at |-> now,
                              value |-> result.value]
    /\ UNCHANGED <<now, signed, wire, norm, match>>

\* a caller asks whether the token on the wire is valid
Validate ==
    /\ wire.kind # "none"
    /\ \E key \in VerifyKeys, algorithm \in Algorithms :
        out' = [op |-> "isValidToken", key |-> key, algorithm |-> algorithm,
                result |-> isValidToken(wire, key, algorithm, now)]
    /\ UNCHANGED <<now, signed, wire, parsed, norm, match>>

Next == Tick \/ Sign \/ Tamper \/ Parse \/ Validate

Spec == Init /\ [][Next]_vars

\* the normalizer applied to an encoding of a logical key
NormalizeKey ==
    \E k \in LogicalKeys, unit \in Units, run \in 1..MaxRun :
        LET input == Encode(k, Repeat(unit, run))
        IN /\ norm' = [op |-> "_parseRSAKey", known |-> TRUE, key |-> k,
                       unit |-> unit, run |-> run, input |-> input,
                       result |-> _parseRSAKey(input)]
           /\ UNCHANGED <<now, signed, wire, out, parsed, match>>

\* inputs that start with neither recognised marker
OtherInputs ==
    {Secret, <<>>, UndefinedKey}
    \union {Encode([type |-> Pkcs8KeyType, lines |-> ls], unit) :
                ls \in LineSeqs, unit \in Units}

\* the normalizer applied to any other input
NormalizeOther ==
    \E input \in OtherInputs :
        /\ norm' = [op |-> "_parseRSAKey", known |-> FALSE, input |-> input,
                    result |-> _parseRSAKey(input)]
        /\ UNCHANGED <<now, signed, wire, out, parsed, match>>

NextKey == NormalizeKey \/ NormalizeOther

SpecKey == Init /\ [][NextKey]_vars

\* the comparator applied to a parsed token's exp and a date
Match ==
    \E exp \in {Null} \union {DateOf(s * MsPerSec) : s \in 0..MaxExpSec},
       base \in {s * MsPerSec : s \in 0..MaxExpSec}, d \in Deltas :
        LET date == IF exp = Null THEN base + d ELSE exp[1] + d
        IN /\ exp # Null => base = 0
           /\ match' = [op |-> "isTokenExpDateMatching", exp |-> exp,
                        date |-> date,
                        result |-> isTokenExpDateMatching([exp |-> exp], date)]
           /\ UNCHANGED <<now, signed, wire, out, parsed, norm>>

NextMatch == Match

SpecMatch == Init /\ [][NextMatch]_vars

-----------------------------------------------------------------------------
(* Properties *)

\* signToken returned a token
Issued == signed.op = "signToken" /\ ~signed.result.threw

\* the token on the wire is the one signToken returned
Untampered == Issued /\ wire = signed.result.token

\* key verifies what signing with signKey under algorithm produced
MatchingKey(signKey, key, algorithm) ==
    IF algorithm = "RS256"
    THEN signKey = Encode(PrivA, SpaceJoined) /\ key = Encode(PubA, SpaceJoined)
    ELSE key = signKey

\* parseToken was just called on the signed token, with the matching key
\* and the algorithm it was signed with
ParsedSigned ==
    /\ out.op = "parseToken"
    /\ Untampered
    /\ out.algorithm = signed.algorithm
    /\ MatchingKey(signed.key, out.key, out.algorithm)

\* the object parseToken returned carries every claim of the payload
ClaimsKept ==
    \A c \in DOMAIN signed.payload : out.result.value[c] = signed.payload[c]

\* E truncated to whole seconds
TruncatedToSecond(ms) == (ms \div 1000) * 1000

\* C1: a payload signed with an expiry date still in the future and parsed
\* with the matching key comes back with every claim unchanged and with
\* isValid true
C1_RoundTrip ==
    (ParsedSigned /\ signed.expiresIn.kind = "date" /\ signed.expiresIn.ms > now)
        => /\ ~out.result.threw
           /\ ClaimsKept
           /\ out.result.value.isValid = TRUE

\* C2: the exp of the parsed token is the expiry date given to signToken,
\* truncated to whole seconds, whatever the date and the signing instant
C2_ExpIsTruncatedExpiry ==
    (ParsedSigned /\ signed.expiresIn.kind = "date")
        => /\ ~out.result.threw
           /\ out.result.value.exp = DateOf(TruncatedToSecond(signed.expiresIn.ms))

\* C3 as stated: isValid read after the clock has passed exp is false, even
\* when the token was parsed at or before exp
C3_RecomputedAtRead ==
    (/\ parsed.op = "parseToken"
     /\ parsed.value.exp # Null
     /\ parsed.at <= parsed.value.exp[1]
     /\ now > parsed.value.exp[1])
        => parsed.value.isValid = FALSE

\* C3 as amended: isValid is fixed when parseToken returns, to "exp is null
\* or the clock at parse time is at or before exp", and a later read gives
\* that same value whatever the clock has become
C3_ComputedAtParse ==
    parsed.op = "parseToken"
        => parsed.value.isValid =
               (parsed.value.exp = Null \/ parsed.at <= parsed.value.exp[1])

C3_Witness ==
    /\ parsed.op = "parseToken"
    /\ parsed.value.exp # Null
    /\ parsed.at <= parsed.value.exp[1]
    /\ now > parsed.value.exp[1]
    /\ parsed.value.isValid = TRUE

\* the input starts with one of the two recognised markers
Recognised(input) ==
    \/ StartsWith(input, BeginMarker(PublicKeyType))
    \/ StartsWith(input, BeginMarker(RsaPrivateKeyType))

\* C4: the normalizer raises on every input that starts with neither
\* recognised marker
C4_KeyFormatError ==
    (norm.op = "_parseRSAKey" /\ ~Recognised(norm.input)) => norm.result.threw

\* the key and algorithm given to signToken can sign
CanSign ==
    \/ signed.algorithm = "HS256"
    \/ signed.key = Encode(PrivA, SpaceJoined)

\* C5: signing with an expiry date already past does not raise, and parsing
\* the token gives every claim of the payload and isValid false
C5_ExpirationDetection ==
    /\ (/\ signed.op = "signToken" /\ CanSign
        /\ signed.expiresIn.kind = "date" /\ signed.expiresIn.ms < signed.at)
           => ~signed.result.threw
    /\ (/\ ParsedSigned
        /\ signed.expiresIn.kind = "date" /\ signed.expiresIn.ms < signed.at)
           => /\ ~out.result.threw
              /\ ClaimsKept
              /\ out.result.value.isValid = FALSE

\* C6: a token signed without an expiry parses, at the signing instant and
\* at every later one, to exp null and isValid true
C6_NoExpiryPerpetuity ==
    (ParsedSigned /\ signed.expiresIn.kind = "null")
        => /\ ~out.result.threw
           /\ out.result.value.exp = Null
           /\ out.result.value.isValid = TRUE

C6_Witness ==
    /\ ParsedSigned
    /\ signed.expiresIn.kind = "null"
    /\ now >= signed.at + 2 * TickMs
    /\ ~out.result.threw
    /\ out.result.value.isValid = TRUE

Verifies ==
    /\ Untampered
    /\ out.algorithm = signed.algorithm
    /\ MatchingKey(signed.key, out.key, out.algorithm)
    /\ \/ "exp" \notin DOMAIN wire.claims
       \/ now <= wire.claims.exp * 1000

\* C8: isValidToken never raises, returns a boolean, and returns false
\* whenever verification fails
C8_IsValidTokenNeverRaises ==
    out.op = "isValidToken"
        => /\ ~out.result.threw
           /\ out.result.value \in BOOLEAN
           /\ ~Verifies => out.result.value = FALSE

C8_Witness ==
    /\ out.op = "isValidToken"
    /\ out.algorithm = "RS256"
    /\ out.key = UndefinedKey
    /\ ~out.result.threw
    /\ out.result.value = FALSE

\* C9: the comparator returns true exactly when exp is present and date is
\* within 2000 ms of it, the boundary included
C9_ExpDateMatching ==
    match.op = "isTokenExpDateMatching"
        => match.result =
               (/\ match.exp # Null
                /\ match.exp[1] - match.date <= 2000
                /\ match.date - match.exp[1] <= 2000)

C9_Witness ==
    /\ match.op = "isTokenExpDateMatching"
    /\ match.exp # Null
    /\ match.exp[1] - match.date = 2000
    /\ match.result = TRUE

\* C10: the space-joined, newline and backslash-n encodings of a key all
\* normalize to the PEM text of the key, one body line per line
C10_NormalizationEquivalence ==
    (norm.op = "_parseRSAKey" /\ norm.known /\ norm.run = 1)
        => /\ ~norm.result.threw
           /\ norm.result.value = Canonical(norm.key)

C10_Witness ==
    /\ norm.op = "_parseRSAKey"
    /\ norm.known
    /\ norm.run = 1
    /\ norm.unit = EscapedNewline
    /\ Len(norm.key.lines) = 2
    /\ norm.result.value = Canonical(norm.key)

\* no line of the text is empty: no two newlines follow one another
NoEmptyLine(text) ==
    \A i \in 1..(Len(text) - 1) : ~(text[i] = NL /\ text[i + 1] = NL)

\* C11: a correctly formatted PEM key (BEGIN line, body lines separated by
\* single newlines, END line, nothing around) is returned unchanged
C11_NormalizationIdempotence ==
    (/\ norm.op = "_parseRSAKey" /\ norm.known
     /\ norm.unit = RealNewline /\ norm.run = 1)
        => /\ ~norm.result.threw
           /\ norm.result.value = norm.input

C11_Witness ==
    /\ norm.op = "_parseRSAKey"
    /\ norm.known
    /\ norm.unit = RealNewline
    /\ norm.run = 1
    /\ norm.key.type = RsaPrivateKeyType
    /\ Len(norm.key.lines) = 2
    /\ norm.input = BeginMarker(RsaPrivateKeyType) \o <<NL>> \o norm.key.lines[1]
                    \o <<NL>> \o norm.key.lines[2] \o <<NL>>
                    \o EndMarker(RsaPrivateKeyType)
    /\ norm.result.value = norm.input

\* C14: with a recognised marker, a run of separators of any length between
\* two body lines becomes exactly one newline, so the output is the PEM text
\* of the key and has no empty line
C14_RunsBecomeOneNewline ==
    (norm.op = "_parseRSAKey" /\ norm.known)
        => /\ ~norm.result.threw
           /\ NoEmptyLine(norm.result.value)
           /\ norm.result.value = Canonical(norm.key)

\* C12: a token whose header declares another algorithm than the one given
\* to the verifier makes parseToken raise and isValidToken return false,
\* whatever the key
C12_AlgorithmMismatchRejected ==
    (out.op # "none" /\ wire.kind = "jwt" /\ wire.alg # out.algorithm)
        => /\ out.op = "parseToken" => out.result.threw
           /\ out.op = "isValidToken"
                  => (~out.result.threw /\ out.result.value = FALSE)

C12_Witness ==
    /\ Untampered
    /\ signed.algorithm = "RS256"
    /\ out.op = "parseToken"
    /\ out.algorithm = "HS256"
    /\ out.key = Encode(PubA, SpaceJoined)
    /\ out.result.threw

\* the call reached the primitive unless the normalizer raised, and the key
\* the primitive got is the normalizer's output under RS256 and the
\* caller's key under HS256
HandedKey(result, key, algorithm) ==
    /\ "primitiveKey" \in DOMAIN result
           \/ (algorithm = "RS256" /\ NormalizedKey[key].threw)
    /\ "primitiveKey" \in DOMAIN result
           => result.primitiveKey = IF algorithm = "RS256"
                                    THEN NormalizedKey[key].value ELSE key

\* C13: signToken, parseToken and isValidToken hand the primitive the
\* normalizer's output when the algorithm is RS256 and the caller's key
\* unchanged when it is HS256
C13_KeyHandedToPrimitive ==
    /\ signed.op = "signToken"
           => HandedKey(signed.result, signed.key, signed.algorithm)
    /\ out.op # "none" => HandedKey(out.result, out.key, out.algorithm)

C13_Witness ==
    /\ signed.op = "signToken"
    /\ signed.algorithm = "RS256"
    /\ signed.key = Encode(PrivA, SpaceJoined)
    /\ signed.result.primitiveKey = PemPrivA
    /\ out.op = "isValidToken"
    /\ out.algorithm = "HS256"
    /\ out.key = Secret
    /\ out.result.primitiveKey = Secret

\* C15: at one clock instant, on a token that parseToken accepts,
\* isValidToken with the same key and algorithm returns what parseToken
\* returned as isValid
C15_IsValidTokenAgreesWithParse ==
    (/\ parsed.op = "parseToken" /\ parsed.at = now
     /\ out.op = "isValidToken"
     /\ out.key = parsed.key /\ out.algorithm = parsed.algorithm)
        => out.result.value = parsed.value.isValid

\* C16: parseToken returns exp null only when the token has no exp claim,
\* and otherwise the date of the claim times 1000 ms, 0 included; the same
\* for iat
C16_NullOnlyWhenAbsent ==
    (out.op = "parseToken" /\ ~out.result.threw)
        => \A c \in {"exp", "iat"} :
               out.result.value[c] =
                   IF c \in DOMAIN wire.claims
                   THEN DateOf(wire.claims[c] * 1000) ELSE Null

====
